---------------------------- MODULE Spec2Model ----------------------------
(***************************************************************************)
(* Model of cmd/run.go of zkevm-ethtx-manager: the startup orchestrator    *)
(* `start`, the fork-interval resolver `forkIDIntervals` and the shutdown   *)
(* loop `waitSignal`.  The state store (package state), the L1 client      *)
(* (package etherman) and the configuration loader are collaborators: each *)
(* of their calls is a step whose outcome (success, error, returned value) *)
(* is chosen nondeterministically.                                         *)
(***************************************************************************)
EXTENDS Integers, Sequences, FiniteSets, TLC

\* ------------------------------------------------------------------ bounds
\* Fork identifiers the store and the L1 client can hold: 1..MaxForkID.
MaxForkID == 2
\* Longest operator-supplied component list.
MaxComponents == 2
\* The last synchronized L1 block lies at most this far after genesis.
MaxSyncedAhead == 1

\* The process is run at most this many times against the same store.
MaxRuns == 2

\* c.NetworkConfig.Genesis.BlockNumber
GenesisBlocks == {1}

\* The component name `start` recognises, and a name it does not.
ETHTXMANAGER == "eth-tx-manager"
UNKNOWN == "unknown"
ComponentNames == {ETHTXMANAGER, UNKNOWN}

\* ----------------------------------------------------------------- helpers
RECURSIVE Ascending(_)
\* The sequence of the members of a set of fork ids, ascending: the shape of
\* a fork-interval history (intervals ordered by their first block).
Ascending(S) ==
    IF S = {} THEN <<>>
    ELSE LET m == CHOOSE x \in S : \A y \in S : x <= y
         IN <<m>> \o Ascending(S \ {m})

\* Every fork-interval history over the fork ids 1..MaxForkID.
Histories == {Ascending(S) : S \in SUBSET (1..MaxForkID)}

\* Every component list of at most MaxComponents names.
ComponentLists == UNION {[1..n -> ComponentNames] : n \in 0..MaxComponents}

\* The nil error.
NoErr == {}

\* fmt.Errorf("<what>. Error: %v", err): an error that carries the text of
\* its cause.  An error is modelled by the set of failures its text reports.
Errorf(what, cause) == {what} \cup cause

VARIABLES
    \* operator input and configuration
    components,        \* cliCtx.StringSlice(config.FlagComponents)
    flagMigrations,    \* cliCtx.Bool(config.FlagMigrations)
    c,                 \* the loaded config: Metrics.Enabled, Metrics.ProfilingEnabled, genesis block
    forkIDs0,          \* the committed rows of the store when the process started
    run,               \* the number of this run of the process (1 for the first)
    prev,              \* how the resolver of the previous run ended, and its result
    \* the persistent store
    forkIDs,           \* committed rows of the fork-interval table
    l1Block,           \* the last synchronized L1 block: <<>> when none, else <<BlockNumber>>
    dbTx,              \* "none", "open", "committed", "rolledback", "rollbackfailed"
    txRows,            \* rows written inside dbTx and not yet committed
    \* forkIDIntervals (the resolver)
    forkIDIntervals,   \* its local of that name, returned on success
    lastBlock,         \* its local of that name: <<>> (nil) or <<BlockNumber>>
    forkIntervals,     \* the answer of etherman.GetForks
    err,               \* the error it returns (NoErr: nil)
    calls,             \* the collaborator calls it has made
    \* start (the orchestrator)
    pc,                \* the statement `start` is at
    orchStates,        \* the orchestrator states whose work has been done, in order
    stateSqlDB,        \* the store connection of db.NewSQLDB is open
    stForkIDs,         \* the state's in-memory fork intervals
    injected,          \* UpdateForkIDIntervalsInMemory has been called
    idx,               \* loop index over components
    started,           \* the components launched with `go etm.Start()`
    stopped,           \* the launched units (goroutines) that have ended on their own
    endpoints,         \* the endpoints launched: subset of {"metrics", "profiling"}
    checks,            \* migration steps done, in order
    cancelFuncs,       \* the cancellation registry
    cancelled,         \* the cancellation handles invoked, in order
    signals,           \* the signals channel of waitSignal (capacity 1)
    fatal,             \* the startup call whose failure ended the process ("" when none)
    exitStatus         \* the process exit status once pc = "exited"

cliVars == <<components, flagMigrations, c, forkIDs0, run, prev>>
storeVars == <<forkIDs, l1Block, dbTx, txRows>>
resolverVars == <<forkIDIntervals, lastBlock, forkIntervals, err, calls>>
startVars == <<stateSqlDB, stForkIDs, injected, idx, started, stopped, endpoints,
               checks, cancelFuncs, cancelled, signals, fatal, exitStatus>>
vars == <<cliVars, storeVars, resolverVars, startVars, pc, orchStates>>

\* Nothing called yet; GetForkIDsErr and GetLastBlockErr hold the error the
\* last call of that name answered ("" before the call).
NoCalls == [GetForkIDs |-> 0, GetForkIDsErr |-> "", GetLastBlock |-> 0,
            GetLastBlockErr |-> "", GetForks |-> <<>>,
            Begin |-> 0, AddForkID |-> <<>>, Commit |-> 0, Rollback |-> 0]

\* No previous run.
NoPrev == [kind |-> "none", result |-> <<>>]

Init ==
    /\ components \in ComponentLists
    /\ flagMigrations \in BOOLEAN
    /\ c \in [MetricsEnabled : BOOLEAN, ProfilingEnabled : BOOLEAN,
              GenesisBlockNumber : GenesisBlocks]
    /\ forkIDs \in Histories
    /\ forkIDs0 = forkIDs
    /\ run = 1
    /\ prev = NoPrev
    /\ l1Block \in {<<>>} \cup
          {<<c.GenesisBlockNumber + d>> : d \in 0..MaxSyncedAhead}
    /\ dbTx = "none"
    /\ txRows = <<>>
    /\ forkIDIntervals = <<>>
    /\ lastBlock = <<>>
    /\ forkIntervals = <<>>
    /\ err = NoErr
    /\ calls = NoCalls
    /\ pc = "Load"
    /\ orchStates = <<"Configuring">>
    /\ stateSqlDB = FALSE
    /\ stForkIDs = <<>>
    /\ injected = FALSE
    /\ idx = 1
    /\ started = <<>>
    /\ stopped = {}
    /\ endpoints = {}
    /\ checks = <<>>
    /\ cancelFuncs = <<>>
    /\ cancelled = <<>>
    /\ signals = <<>>
    /\ fatal = ""
    /\ exitStatus = 0

\* ------------------------------------------------------- start: startup
\* log.Fatal logs and ends the process with os.Exit(1).
LogFatalStatus == 1
\* The status the process ends with when `start` returns an error to the
\* command-line runner.
StartErrorStatus == 1

\* log.Fatal(...) after the call `at` failed.
Fatal(at) ==
    /\ pc' = "exited"
    /\ fatal' = at
    /\ exitStatus' = LogFatalStatus

\* The call succeeded: `start` goes on to `next`.
Goto(next) ==
    /\ pc' = next
    /\ UNCHANGED <<fatal, exitStatus>>

RECURSIVE EnterAll(_, _)
\* The states passed so far, followed by the states `sts` in order; a state
\* the orchestrator is already in is not entered again.
EnterAll(passed, sts) ==
    IF sts = <<>> THEN passed
    ELSE EnterAll(IF passed[Len(passed)] = Head(sts) THEN passed
                                                     ELSE Append(passed, Head(sts)),
                  Tail(sts))

\* The step does work of the orchestrator state `st` (section 4.2 of the
\* design: Configuring, ConnectingStore, ResolvingForks, ConstructingServices,
\* Running); a step that ends the process ends in Terminated.
WorkDone(st) ==
    orchStates' = EnterAll(orchStates, IF pc' = "exited" THEN <<st, "Terminated">>
                                                         ELSE <<st>>)

\* Mutation of FatalStep: the failure is recorded but `start` goes on.
FatalStep_GoesOn(at, next) ==
    /\ pc = at
    /\ \E ok \in BOOLEAN :
          /\ pc' = next
          /\ fatal' = IF ok THEN fatal ELSE at
          /\ exitStatus' = exitStatus

\* A startup call that either succeeds, after which `start` is at `next`, or
\* fails, which is fatal.
FatalStep(at, next) ==
    /\ pc = at
    /\ \E ok \in BOOLEAN :
          IF ok THEN Goto(next) ELSE Fatal(at)

\* c, err := config.Load(cliCtx, true); if err != nil { return err }
Load ==
    /\ pc = "Load"
    /\ \E ok \in BOOLEAN :
          IF ok THEN Goto("runStateMigrations")
                ELSE /\ pc' = "exited"
                     /\ fatal' = "Load"
                     /\ exitStatus' = StartErrorStatus
    /\ WorkDone("Configuring")
    /\ UNCHANGED <<cliVars, storeVars, resolverVars, stateSqlDB, stopped,
                   stForkIDs, injected, idx,
                   started, endpoints, checks, cancelFuncs, cancelled, signals>>

\* Mutation of runStateMigrations: the flag skips the check as well as the run.
runStateMigrations_FlagSkipsCheck ==
    /\ pc = "runStateMigrations"
    /\ IF ~flagMigrations
          THEN /\ checks' = Append(checks, "run")
               /\ \E ok \in BOOLEAN :
                     IF ok THEN Goto("checkStateMigrations")
                           ELSE Fatal("runStateMigrations")
          ELSE /\ checks' = checks
               /\ Goto("NewSQLDB")
    /\ WorkDone("Configuring")
    /\ UNCHANGED <<cliVars, storeVars, resolverVars, stateSqlDB, stopped,
                   stForkIDs, injected, idx,
                   started, endpoints, cancelFuncs, cancelled, signals>>

\* if !cliCtx.Bool(config.FlagMigrations) { runStateMigrations(c.State.DB) }
runStateMigrations ==
    /\ pc = "runStateMigrations"
    /\ IF ~flagMigrations
          THEN /\ checks' = Append(checks, "run")
               /\ \E ok \in BOOLEAN :
                     IF ok THEN Goto("checkStateMigrations")
                           ELSE Fatal("runStateMigrations")
          ELSE /\ checks' = checks
               /\ Goto("checkStateMigrations")
    /\ WorkDone("Configuring")
    /\ UNCHANGED <<cliVars, storeVars, resolverVars, stateSqlDB, stopped,
                   stForkIDs, injected, idx,
                   started, endpoints, cancelFuncs, cancelled, signals>>

\* checkStateMigrations(c.State.DB)
checkStateMigrations ==
    /\ FatalStep("checkStateMigrations", "NewSQLDB")
    /\ checks' = Append(checks, "check")
    /\ WorkDone("Configuring")
    /\ UNCHANGED <<cliVars, storeVars, resolverVars, stateSqlDB, stopped,
                   stForkIDs, injected, idx,
                   started, endpoints, cancelFuncs, cancelled, signals>>

\* stateSqlDB, err := db.NewSQLDB(c.State.DB)
NewSQLDB ==
    /\ FatalStep("NewSQLDB", "newEtherman")
    /\ stateSqlDB' = (pc' = "newEtherman")
    /\ WorkDone("ConnectingStore")
    /\ UNCHANGED <<cliVars, storeVars, resolverVars, stopped,
                   stForkIDs, injected, idx,
                   started, endpoints, checks, cancelFuncs, cancelled, signals>>

\* etherman, err := newEtherman(*c)
newEtherman ==
    /\ FatalStep("newEtherman", "GetL2ChainID")
    /\ WorkDone("ConnectingStore")
    /\ UNCHANGED <<cliVars, storeVars, resolverVars, stateSqlDB, stopped,
                   stForkIDs, injected, idx,
                   started, endpoints, checks, cancelFuncs, cancelled, signals>>

\* l2ChainID, err := etherman.GetL2ChainID()
GetL2ChainID ==
    /\ FatalStep("GetL2ChainID", "newState")
    /\ WorkDone("ConnectingStore")
    /\ UNCHANGED <<cliVars, storeVars, resolverVars, stateSqlDB, stopped,
                   stForkIDs, injected, idx,
                   started, endpoints, checks, cancelFuncs, cancelled, signals>>

\* Mutation of newState: `start` goes on to the storage of the transaction
\* manager without calling forkIDIntervals.
newState_SkipsResolver ==
    /\ FatalStep("newState", "NewPostgresStorage")
    /\ stForkIDs' = <<>>
    /\ WorkDone("ConnectingStore")
    /\ UNCHANGED <<cliVars, storeVars, resolverVars, stateSqlDB, stopped,
                   injected, idx,
                   started, endpoints, checks, cancelFuncs, cancelled, signals>>

\* st := newState(..., []state.ForkIDInterval{}, ...): the state starts with
\* no fork interval in memory; reading the L1 info root entries may be fatal.
newState ==
    /\ FatalStep("newState", "GetForkIDs")
    /\ stForkIDs' = <<>>
    /\ WorkDone("ConnectingStore")
    /\ UNCHANGED <<cliVars, storeVars, resolverVars, stateSqlDB, stopped,
                   injected, idx,
                   started, endpoints, checks, cancelFuncs, cancelled, signals>>


\* ----------------------------------------------- forkIDIntervals (resolver)
ErrStateNotSynchronized == "ErrStateNotSynchronized"
StoreError == "StoreError"

\* What st.GetForkIDs(ctx, nil) can answer: the committed rows; when there is
\* none, possibly ErrStateNotSynchronized; or a query failure.
GetForkIDsAnswers ==
    {[rows |-> forkIDs, e |-> "nil"], [rows |-> <<>>, e |-> StoreError]}
    \cup (IF forkIDs = <<>> THEN {[rows |-> <<>>, e |-> ErrStateNotSynchronized]} ELSE {})

\* What st.GetLastBlock(ctx, nil) can answer: the last synchronized block,
\* ErrStateNotSynchronized with a nil block when there is none, or a query failure.
GetLastBlockAnswers ==
    (IF l1Block = <<>> THEN {[block |-> <<>>, e |-> ErrStateNotSynchronized]}
                       ELSE {[block |-> l1Block, e |-> "nil"]})
    \cup {[block |-> <<>>, e |-> StoreError]}

\* What etherman.GetForks can answer: a fork-interval history (possibly empty)
\* or an error.
GetForksAnswers ==
    {[forks |-> h, e |-> "nil"] : h \in Histories} \cup {[forks |-> <<>>, e |-> "OracleError"]}

\* return <intervals>, <e>
Return(intervals, e) ==
    /\ forkIDIntervals' = intervals
    /\ err' = e
    /\ pc' = "forkIDIntervalsReturned"

\* Mutation of IsQueryFailure: every error of the store is a failure.
IsQueryFailure_Strict(e) == e # "nil"

\* err != nil && !errors.Is(err, state.ErrStateNotSynchronized)
IsQueryFailure(e) == e # "nil" /\ e # ErrStateNotSynchronized

\* Mutation of numberForkIDs: the stored rows are never counted.
numberForkIDs_Zero(rows) == 0

\* numberForkIDs := len(forkIDIntervals)
numberForkIDs(rows) == Len(rows)

\* forkIDIntervals, err := st.GetForkIDs(ctx, nil) ... if numberForkIDs == 0 {
GetForkIDs ==
    /\ pc = "GetForkIDs"
    /\ \E a \in GetForkIDsAnswers :
          /\ calls' = [calls EXCEPT !.GetForkIDs = @ + 1, !.GetForkIDsErr = a.e]
          /\ IF IsQueryFailure(a.e)
             THEN Return(<<>>, Errorf("error getting forkIDs from db", {a.e}))
             ELSE IF numberForkIDs(a.rows) = 0
                     THEN /\ forkIDIntervals' = a.rows
                          /\ err' = NoErr
                          /\ pc' = "GetLastBlock"
                     ELSE Return(a.rows, NoErr)
    /\ WorkDone("ResolvingForks")
    /\ UNCHANGED <<cliVars, storeVars, lastBlock, forkIntervals, startVars>>

\* lastBlock, err := st.GetLastBlock(ctx, nil)
GetLastBlock ==
    /\ pc = "GetLastBlock"
    /\ \E a \in GetLastBlockAnswers :
          /\ calls' = [calls EXCEPT !.GetLastBlock = @ + 1, !.GetLastBlockErr = a.e]
          /\ IF IsQueryFailure(a.e)
             THEN /\ Return(<<>>, Errorf("error checking lastL1BlockSynced", {a.e}))
                  /\ lastBlock' = lastBlock
             ELSE /\ lastBlock' = a.block
                  /\ pc' = "GetForks"
                  /\ UNCHANGED <<forkIDIntervals, err>>
    /\ WorkDone("ResolvingForks")
    /\ UNCHANGED <<cliVars, storeVars, forkIntervals, startVars>>

\* Mutation of GetForksRange: the genesis block alone in both branches.
GetForksRange_GenesisOnly == <<c.GenesisBlockNumber, c.GenesisBlockNumber>>

\* The block range of the GetForks call: up to the last synchronized block
\* when there is one, the genesis block alone otherwise.
GetForksRange ==
    IF lastBlock # <<>>
       THEN <<c.GenesisBlockNumber, lastBlock[1]>>
       ELSE <<c.GenesisBlockNumber, c.GenesisBlockNumber>>

\* Mutation of NoForkIDReceived: an empty answer is accepted.
NoForkIDReceived_Never(forks) == FALSE

\* } else if len(forkIntervals) == 0 {
NoForkIDReceived(forks) == Len(forks) = 0

\* Mutation of GetForks: the answer is persisted in the genesis-only branch too.
GetForks_PersistsAlways ==
    /\ pc = "GetForks"
    /\ \E a \in GetForksAnswers :
          /\ calls' = [calls EXCEPT !.GetForks =
                          Append(@, [range |-> GetForksRange, e |-> a.e, forks |-> a.forks])]
          /\ forkIntervals' = a.forks
          /\ IF a.e # "nil"
                THEN Return(<<>>, Errorf("error getting forks", {a.e}))
                ELSE IF NoForkIDReceived(a.forks)
                        THEN Return(<<>>, {"no forkID received"})
                        ELSE /\ pc' = "BeginStateTransaction"
                             /\ UNCHANGED <<forkIDIntervals, err>>
    /\ WorkDone("ResolvingForks")
    /\ UNCHANGED <<cliVars, storeVars, lastBlock, startVars>>

\* forkIntervals, err := etherman.GetForks(ctx, genesisBlockNumber, ...), in
\* either branch, with the error and empty-answer returns that follow it.
\* The answer is persisted only in the branch of `lastBlock != nil`.
GetForks ==
    /\ pc = "GetForks"
    /\ \E a \in GetForksAnswers :
          /\ calls' = [calls EXCEPT !.GetForks =
                          Append(@, [range |-> GetForksRange, e |-> a.e, forks |-> a.forks])]
          /\ forkIntervals' = a.forks
          /\ IF a.e # "nil"
                THEN Return(<<>>, Errorf("error getting forks", {a.e}))
                ELSE IF NoForkIDReceived(a.forks)
                        THEN Return(<<>>, {"no forkID received"})
                        ELSE IF lastBlock # <<>>
                                THEN /\ pc' = "BeginStateTransaction"
                                     /\ UNCHANGED <<forkIDIntervals, err>>
                                ELSE Return(a.forks, NoErr)
    /\ WorkDone("ResolvingForks")
    /\ UNCHANGED <<cliVars, storeVars, lastBlock, startVars>>

\* dbTx, err := st.BeginStateTransaction(ctx)
BeginStateTransaction ==
    /\ pc = "BeginStateTransaction"
    /\ calls' = [calls EXCEPT !.Begin = @ + 1]
    /\ \E ok \in BOOLEAN :
          IF ok THEN /\ dbTx' = "open"
                     /\ txRows' = <<>>
                     /\ pc' = "AddForkID"
                     /\ UNCHANGED <<forkIDIntervals, err>>
                ELSE /\ Return(<<>>, Errorf("error creating dbTx", {StoreError}))
                     /\ UNCHANGED <<dbTx, txRows>>
    /\ WorkDone("ResolvingForks")
    /\ UNCHANGED <<cliVars, forkIDs, l1Block, lastBlock, forkIntervals, startVars>>

\* Mutation of RollbackAndReturn: the transaction is committed instead of
\* rolled back, so the rows written before the failure become visible.
RollbackAndReturn_Commits(what, cause) ==
    /\ dbTx' = "committed"
    /\ txRows' = <<>>
    /\ forkIDs' = forkIDs \o txRows
    /\ Return(<<>>, Errorf(what, cause))

\* rollbackErr := dbTx.Rollback(ctx), and the return that follows it: the
\* rollback error when the rollback failed, the wrapped cause otherwise.
RollbackAndReturn(what, cause) ==
    /\ \E rollbackOk \in BOOLEAN :
          IF rollbackOk
             THEN /\ dbTx' = "rolledback"
                  /\ txRows' = <<>>
                  /\ Return(<<>>, Errorf(what, cause))
             ELSE /\ dbTx' = "rollbackfailed"
                  /\ txRows' = txRows
                  /\ Return(<<>>, {"RollbackError"})
    /\ forkIDs' = forkIDs

\* Mutation of AddForkID: a failed write returns its error without a
\* rollback.
AddForkID_NoRollback ==
    /\ pc = "AddForkID"
    /\ Len(txRows) < Len(forkIntervals)
    /\ LET f == forkIntervals[Len(txRows) + 1] IN
       \E ok \in BOOLEAN :
          IF ok THEN /\ calls' = [calls EXCEPT !.AddForkID = Append(@, f)]
                     /\ txRows' = Append(txRows, f)
                     /\ pc' = IF Len(txRows) + 1 = Len(forkIntervals)
                                 THEN "Commit" ELSE "AddForkID"
                     /\ UNCHANGED <<forkIDs, dbTx, forkIDIntervals, err>>
                ELSE /\ calls' = [calls EXCEPT !.AddForkID = Append(@, f)]
                     /\ Return(<<>>, Errorf("error adding forkID to db", {StoreError}))
                     /\ UNCHANGED <<forkIDs, dbTx, txRows>>
    /\ WorkDone("ResolvingForks")
    /\ UNCHANGED <<cliVars, l1Block, lastBlock, forkIntervals, startVars>>


\* Mutation of AddForkID: the write is not made on the transaction, so its
\* row is a committed row at once.
AddForkID_Autocommit ==
    /\ pc = "AddForkID"
    /\ Len(txRows) < Len(forkIntervals)
    /\ LET f == forkIntervals[Len(txRows) + 1] IN
       \E ok \in BOOLEAN :
          IF ok THEN /\ calls' = [calls EXCEPT !.AddForkID = Append(@, f)]
                     /\ txRows' = Append(txRows, f)
                     /\ forkIDs' = Append(forkIDs, f)
                     /\ pc' = IF Len(txRows) + 1 = Len(forkIntervals)
                                 THEN "Commit" ELSE "AddForkID"
                     /\ UNCHANGED <<dbTx, forkIDIntervals, err>>
                ELSE /\ calls' = [calls EXCEPT !.AddForkID = Append(@, f),
                                               !.Rollback = @ + 1]
                     /\ RollbackAndReturn("error adding forkID to db", {StoreError})
    /\ WorkDone("ResolvingForks")
    /\ UNCHANGED <<cliVars, l1Block, lastBlock, forkIntervals, startVars>>


\* for _, f := range forkIntervals { err := st.AddForkID(ctx, f, dbTx) ... }:
\* one iteration.  A write that succeeds adds a row to the open transaction;
\* after the last one the loop is left for the commit.
AddForkID ==
    /\ pc = "AddForkID"
    /\ Len(txRows) < Len(forkIntervals)
    /\ LET f == forkIntervals[Len(txRows) + 1] IN
       \E ok \in BOOLEAN :
          IF ok THEN /\ calls' = [calls EXCEPT !.AddForkID = Append(@, f)]
                     /\ txRows' = Append(txRows, f)
                     /\ pc' = IF Len(txRows) + 1 = Len(forkIntervals)
                                 THEN "Commit" ELSE "AddForkID"
                     /\ UNCHANGED <<forkIDs, dbTx, forkIDIntervals, err>>
                ELSE /\ calls' = [calls EXCEPT !.AddForkID = Append(@, f),
                                               !.Rollback = @ + 1]
                     /\ RollbackAndReturn("error adding forkID to db", {StoreError})
    /\ WorkDone("ResolvingForks")
    /\ UNCHANGED <<cliVars, l1Block, lastBlock, forkIntervals, startVars>>

\* Mutation of Commit: the answer is returned without committing the
\* transaction that holds it.
Commit_ReturnsUncommitted ==
    /\ pc = "Commit"
    /\ Return(forkIntervals, NoErr)
    /\ WorkDone("ResolvingForks")
    /\ UNCHANGED <<cliVars, storeVars, calls, lastBlock, forkIntervals, startVars>>


\* err = dbTx.Commit(ctx) ... forkIDIntervals = forkIntervals: a commit that
\* succeeds makes the rows of the transaction the committed rows.
Commit ==
    /\ pc = "Commit"
    /\ \E ok \in BOOLEAN :
          IF ok THEN /\ calls' = [calls EXCEPT !.Commit = @ + 1]
                     /\ forkIDs' = forkIDs \o txRows
                     /\ dbTx' = "committed"
                     /\ txRows' = <<>>
                     /\ Return(forkIntervals, NoErr)
                ELSE /\ calls' = [calls EXCEPT !.Commit = @ + 1, !.Rollback = @ + 1]
                     /\ RollbackAndReturn("error committing dbTx", {StoreError})
    /\ WorkDone("ResolvingForks")
    /\ UNCHANGED <<cliVars, l1Block, lastBlock, forkIntervals, startVars>>

\* ------------------------------------------------ start: after resolution
\* Mutation of UpdateForkIDIntervalsInMemory: the error of the resolver is
\* not checked.
UpdateForkIDIntervalsInMemory_IgnoresErr ==
    /\ pc = "forkIDIntervalsReturned"
    /\ stForkIDs' = forkIDIntervals
    /\ injected' = TRUE
    /\ Goto("NewPostgresStorage")
    /\ WorkDone("ResolvingForks")
    /\ UNCHANGED <<cliVars, storeVars, resolverVars, stateSqlDB, stopped,
                   idx, started, endpoints,
                   checks, cancelFuncs, cancelled, signals>>

\* if err != nil { log.Fatal(...) }; st.UpdateForkIDIntervalsInMemory(forkIDIntervals)
UpdateForkIDIntervalsInMemory ==
    /\ pc = "forkIDIntervalsReturned"
    /\ IF err # NoErr
          THEN /\ Fatal("forkIDIntervals")
               /\ UNCHANGED <<stForkIDs, injected>>
          ELSE /\ stForkIDs' = forkIDIntervals
               /\ injected' = TRUE
               /\ Goto("NewPostgresStorage")
    /\ WorkDone("ResolvingForks")
    /\ UNCHANGED <<cliVars, storeVars, resolverVars, stateSqlDB, stopped,
                   idx, started, endpoints,
                   checks, cancelFuncs, cancelled, signals>>

\* ethTxManagerStorage, err := ethtxmanager.NewPostgresStorage(c.State.DB)
NewPostgresStorage ==
    /\ FatalStep("NewPostgresStorage", "startProfilingHttpServer")
    /\ WorkDone("ConstructingServices")
    /\ UNCHANGED <<cliVars, storeVars, resolverVars, stateSqlDB, stopped,
                   stForkIDs, injected, idx,
                   started, endpoints, checks, cancelFuncs, cancelled, signals>>

\* if c.Metrics.ProfilingEnabled { go startProfilingHttpServer(c.Metrics) }
startProfilingHttpServer ==
    /\ pc = "startProfilingHttpServer"
    /\ endpoints' = IF c.ProfilingEnabled THEN endpoints \cup {"profiling"} ELSE endpoints
    /\ pc' = "components"
    /\ orchStates' = IF c.ProfilingEnabled THEN EnterAll(orchStates, <<"Running">>)
                                          ELSE orchStates
    /\ UNCHANGED <<cliVars, storeVars, resolverVars, stateSqlDB, stopped,
                   stForkIDs, injected, idx,
                   started, checks, cancelFuncs, cancelled, signals, fatal, exitStatus>>

\* createEthTxManager: newEtherman or a LoadAuthFromKeyStore may fail, which
\* is fatal; otherwise the client is built.
createEthTxManager(ok) ==
    IF ok THEN Goto("components") ELSE Fatal("createEthTxManager")

\* Mutation of StartComponent: a name that is not recognised ends the loop.
StartComponent_StopsAtUnknown ==
    /\ pc = "components"
    /\ idx <= Len(components)
    /\ IF components[idx] = ETHTXMANAGER
          THEN \E ok \in BOOLEAN :
                  /\ createEthTxManager(ok)
                  /\ started' = IF ok THEN Append(started, components[idx]) ELSE started
                  /\ idx' = IF ok THEN idx + 1 ELSE idx
          ELSE /\ idx' = Len(components) + 1
               /\ UNCHANGED <<pc, started, fatal, exitStatus>>
    /\ orchStates' = IF ~(components[idx] = ETHTXMANAGER) THEN orchStates
                     ELSE IF pc' = "exited"
                             THEN EnterAll(orchStates, <<"ConstructingServices", "Terminated">>)
                             ELSE EnterAll(orchStates, <<"ConstructingServices", "Running">>)
    /\ UNCHANGED <<cliVars, storeVars, resolverVars, stateSqlDB, stopped, stForkIDs,
                   injected, endpoints, checks, cancelFuncs, cancelled, signals>>

\* for _, component := range components { switch component { case ETHTXMANAGER:
\* etm := createEthTxManager(...); go etm.Start() } }: one iteration.
StartComponent ==
    /\ pc = "components"
    /\ idx <= Len(components)
    /\ IF components[idx] = ETHTXMANAGER
          THEN \E ok \in BOOLEAN :
                  /\ createEthTxManager(ok)
                  /\ started' = IF ok THEN Append(started, components[idx]) ELSE started
                  /\ idx' = IF ok THEN idx + 1 ELSE idx
          ELSE /\ idx' = idx + 1
               /\ UNCHANGED <<pc, started, fatal, exitStatus>>
    /\ orchStates' = IF ~(components[idx] = ETHTXMANAGER) THEN orchStates
                     ELSE IF pc' = "exited"
                             THEN EnterAll(orchStates, <<"ConstructingServices", "Terminated">>)
                             ELSE EnterAll(orchStates, <<"ConstructingServices", "Running">>)
    /\ UNCHANGED <<cliVars, storeVars, resolverVars, stateSqlDB, stopped,
                   stForkIDs, injected,
                   endpoints, checks, cancelFuncs, cancelled, signals>>

\* Mutation of startMetricsHttpServer: launched whatever Metrics.Enabled says.
startMetricsHttpServer_Unconditional ==
    /\ pc = "components"
    /\ idx > Len(components)
    /\ endpoints' = endpoints \cup {"metrics"}
    /\ pc' = "waitSignal"
    /\ WorkDone("Running")
    /\ UNCHANGED <<cliVars, storeVars, resolverVars, stateSqlDB, stopped,
                   stForkIDs, injected, idx,
                   started, checks, cancelFuncs, cancelled, signals, fatal, exitStatus>>

\* if c.Metrics.Enabled { go startMetricsHttpServer(c.Metrics) }, after the
\* loop over the components; then waitSignal(cancelFuncs) registers for the
\* interrupt signal and waits.
startMetricsHttpServer ==
    /\ pc = "components"
    /\ idx > Len(components)
    /\ endpoints' = IF c.MetricsEnabled THEN endpoints \cup {"metrics"} ELSE endpoints
    /\ pc' = "waitSignal"
    /\ WorkDone("Running")
    /\ UNCHANGED <<cliVars, storeVars, resolverVars, stateSqlDB, stopped,
                   stForkIDs, injected, idx,
                   started, checks, cancelFuncs, cancelled, signals, fatal, exitStatus>>

\* ------------------------------------------------------------- waitSignal
\* The platform delivers an interrupt: signal.Notify's channel has capacity
\* one, a signal that finds it full is dropped.
Interrupt ==
    /\ pc = "waitSignal"
    /\ Len(signals) < 1
    /\ signals' = Append(signals, "interrupt")
    /\ orchStates' = orchStates
    /\ UNCHANGED <<cliVars, storeVars, resolverVars, stateSqlDB, stopped,
                   pc, stForkIDs, injected, idx,
                   started, endpoints, checks, cancelFuncs, cancelled, fatal, exitStatus>>

\* Mutation of waitSignal: the process exits only once every launched unit
\* has ended.
waitSignal_WaitsForComponents ==
    /\ pc = "waitSignal"
    /\ signals # <<>>
    /\ {<<"component", i>> : i \in 1..Len(started)} \subseteq stopped
    /\ signals' = Tail(signals)
    /\ cancelled' = cancelled \o cancelFuncs
    /\ pc' = "exited"
    /\ exitStatus' = 0
    /\ orchStates' = EnterAll(orchStates, <<"ShuttingDown", "Terminated">>)
    /\ UNCHANGED <<cliVars, storeVars, resolverVars, stateSqlDB, stopped,
                   stForkIDs, injected, idx,
                   started, endpoints, checks, cancelFuncs, fatal>>


\* Mutation of waitSignal: the loop is also left when a launched unit ended.
waitSignal_Supervises ==
    /\ pc = "waitSignal"
    /\ (signals # <<>> \/ stopped # {})
    /\ signals' = IF signals = <<>> THEN signals ELSE Tail(signals)
    /\ cancelled' = cancelled \o cancelFuncs
    /\ pc' = "exited"
    /\ exitStatus' = 0
    /\ orchStates' = EnterAll(orchStates, <<"ShuttingDown", "Terminated">>)
    /\ UNCHANGED <<cliVars, storeVars, resolverVars, stateSqlDB, stopped,
                   stForkIDs, injected, idx,
                   started, endpoints, checks, cancelFuncs, fatal>>


\* for sig := range signals { case os.Interrupt, os.Kill: for _, cancel :=
\* range cancelFuncs { cancel() }; os.Exit(exitStatus) }
waitSignal ==
    /\ pc = "waitSignal"
    /\ signals # <<>>
    /\ signals' = Tail(signals)
    /\ cancelled' = cancelled \o cancelFuncs
    /\ pc' = "exited"
    /\ exitStatus' = 0
    /\ orchStates' = EnterAll(orchStates, <<"ShuttingDown", "Terminated">>)
    /\ UNCHANGED <<cliVars, storeVars, resolverVars, stateSqlDB, stopped,
                   stForkIDs, injected, idx,
                   started, endpoints, checks, cancelFuncs, fatal>>

\* The units launched so far: one goroutine per started component (by its
\* position in `started`) and one per launched endpoint.
Launched ==
    {<<"component", i>> : i \in 1..Len(started)} \cup {<<e, 0>> : e \in endpoints}

\* A launched unit ends on its own (etm.Start returns, an endpoint fails to
\* listen or its server stops): its goroutine returns; `start` holds no
\* reference to it and is not told.
UnitStops ==
    /\ pc # "exited"
    /\ \E u \in Launched \ stopped : stopped' = stopped \cup {u}
    /\ orchStates' = orchStates
    /\ UNCHANGED <<cliVars, storeVars, resolverVars, pc, stateSqlDB, stForkIDs,
                   injected, idx, started, endpoints, checks, cancelFuncs,
                   cancelled, signals, fatal, exitStatus>>

Next ==
    \/ Load
    \/ runStateMigrations
    \/ checkStateMigrations
    \/ NewSQLDB
    \/ newEtherman
    \/ GetL2ChainID
    \/ newState
    \/ GetForkIDs
    \/ GetLastBlock
    \/ GetForks
    \/ BeginStateTransaction
    \/ AddForkID
    \/ Commit
    \/ UpdateForkIDIntervalsInMemory
    \/ NewPostgresStorage
    \/ startProfilingHttpServer
    \/ StartComponent
    \/ startMetricsHttpServer
    \/ Interrupt
    \/ waitSignal
    \/ UnitStops

Spec == Init /\ [][Next]_vars

\* The main goroutine blocked in `for sig := range signals` is resumed once
\* the channel holds a signal.
LiveSpec == Spec /\ WF_vars(waitSignal)

\* ---------------------------------------------------------------- restart
ResolverPcs == {"GetForkIDs", "GetLastBlock", "GetForks", "BeginStateTransaction",
                "AddForkID", "Commit"}

\* forkIDIntervals has been called and has returned.
Returned == calls.GetForkIDs > 0 /\ pc \notin ResolverPcs

\* How the resolver of this run ended: not called, failed, answered from the
\* store, from the L1 client with the answer persisted, or from the L1 client
\* for the genesis block alone.
ResolverOutcome ==
    IF ~Returned THEN "notrun"
    ELSE IF err # NoErr THEN "failed"
    ELSE IF calls.GetForks = <<>> THEN "hit"
    ELSE IF lastBlock # <<>> THEN "persisted"
    ELSE "genesis"

\* The process has ended and is run again with the same command line and
\* configuration against the same store: `start` begins anew; the store keeps
\* its committed rows, a transaction that was left open is gone.
Restart ==
    /\ pc = "exited"
    /\ run < MaxRuns
    /\ run' = run + 1
    /\ prev' = [kind |-> ResolverOutcome, result |-> forkIDIntervals]
    /\ forkIDs0' = forkIDs
    /\ dbTx' = "none"
    /\ txRows' = <<>>
    /\ forkIDIntervals' = <<>>
    /\ lastBlock' = <<>>
    /\ forkIntervals' = <<>>
    /\ err' = NoErr
    /\ calls' = NoCalls
    /\ pc' = "Load"
    /\ orchStates' = <<"Configuring">>
    /\ stateSqlDB' = FALSE
    /\ stForkIDs' = <<>>
    /\ injected' = FALSE
    /\ idx' = 1
    /\ started' = <<>>
    /\ stopped' = {}
    /\ endpoints' = {}
    /\ checks' = <<>>
    /\ cancelFuncs' = <<>>
    /\ cancelled' = <<>>
    /\ signals' = <<>>
    /\ fatal' = ""
    /\ exitStatus' = 0
    /\ UNCHANGED <<components, flagMigrations, c, forkIDs, l1Block>>

NextRestart == Next \/ Restart

RestartSpec == Init /\ [][NextRestart]_vars

\* ------------------------------------------------------------ properties
\* The orchestrator reached the wait for the termination signal (Running),
\* and possibly left it on the signal.
Running == pc = "waitSignal" \/ (pc = "exited" /\ fatal = "")

\* No transaction was opened and nothing was written.
StoreUntouched ==
    /\ forkIDs = forkIDs0
    /\ dbTx = "none"
    /\ txRows = <<>>
    /\ calls.Begin = 0
    /\ calls.AddForkID = <<>>
    /\ calls.Commit = 0
    /\ calls.Rollback = 0

\* C1: when the store holds fork intervals at start, the resolver never calls
\* GetForks, opens no transaction and writes nothing, and once it has returned
\* its result is exactly the stored sequence (or, when the read itself failed,
\* the error of that read).
C1_StoreHitReturnsStored ==
    forkIDs0 # <<>> =>
        /\ calls.GetForks = <<>>
        /\ StoreUntouched
        /\ Returned =>
              /\ err = NoErr => forkIDIntervals = forkIDs0
              /\ err # NoErr => err = Errorf("error getting forkIDs from db", {StoreError})

C1_Witness ==
    /\ Returned
    /\ err = NoErr
    /\ Len(forkIDs0) >= 2
    /\ forkIDIntervals = forkIDs0

\* C2: empty store, last synchronized block B, genesis G, everything
\* succeeds: one GetForks call with range [G, B], one transaction, one
\* AddForkID per returned interval in the order of the answer, one commit, no
\* rollback; the result is the answer and every later successful read of the
\* store gives that same sequence.
C2_PersistsOracleAnswer ==
    (Returned /\ forkIDs0 = <<>> /\ l1Block # <<>> /\ err = NoErr) =>
        /\ Len(calls.GetForks) = 1
        /\ calls.GetForks[1].range = <<c.GenesisBlockNumber, l1Block[1]>>
        /\ calls.Begin = 1
        /\ calls.AddForkID = calls.GetForks[1].forks
        /\ calls.Commit = 1
        /\ calls.Rollback = 0
        /\ dbTx = "committed"
        /\ txRows = <<>>
        /\ forkIDIntervals = calls.GetForks[1].forks
        /\ \A a \in GetForkIDsAnswers : a.e # StoreError => a.rows = forkIDIntervals

C2_Witness ==
    /\ Returned
    /\ forkIDs0 = <<>>
    /\ err = NoErr
    /\ dbTx = "committed"
    /\ Len(forkIDs) >= 2
    /\ l1Block # <<>>
    /\ l1Block[1] > c.GenesisBlockNumber

\* C3: empty store and no last synchronized block: the store is never
\* touched (no transaction, no write, still zero rows), GetForks is called at
\* most once and only with [G, G], and a successful resolver made exactly that
\* one call and returns its answer.
C3_GenesisBranchDoesNotPersist ==
    (forkIDs0 = <<>> /\ l1Block = <<>>) =>
        /\ StoreUntouched
        /\ forkIDs = <<>>
        /\ Len(calls.GetForks) <= 1
        /\ \A k \in 1..Len(calls.GetForks) :
              calls.GetForks[k].range = <<c.GenesisBlockNumber, c.GenesisBlockNumber>>
        /\ (Returned /\ err = NoErr) =>
              /\ Len(calls.GetForks) = 1
              /\ forkIDIntervals = calls.GetForks[1].forks

C3_Witness ==
    /\ forkIDs0 = <<>>
    /\ l1Block = <<>>
    /\ Returned
    /\ err = NoErr
    /\ Len(calls.GetForks) = 1
    /\ Len(forkIDIntervals) >= 1
    /\ forkIDs = <<>>

\* C4: whenever GetForks answered without error and with zero intervals, in
\* either branch, the resolver has returned an error and the store is unmodified.
C4_EmptyAnswerFails ==
    \A k \in 1..Len(calls.GetForks) :
        (calls.GetForks[k].e = "nil" /\ calls.GetForks[k].forks = <<>>) =>
            /\ Returned
            /\ err # NoErr
            /\ forkIDIntervals = <<>>
            /\ ~injected
            /\ StoreUntouched

C4_Witness ==
    /\ Len(calls.GetForks) = 1
    /\ calls.GetForks[1].e = "nil"
    /\ calls.GetForks[1].forks = <<>>
    /\ l1Block # <<>>
    /\ pc = "exited"

\* C5: once a write or the commit has failed (a rollback was attempted), the
\* resolver has returned an error and the store shows its pre-transaction
\* rows: no row written in the transaction is visible.
C5_FailedWriteLeavesStore ==
    calls.Rollback > 0 =>
        /\ Returned
        /\ err # NoErr
        /\ forkIDIntervals = <<>>
        /\ forkIDs = forkIDs0
        /\ \A a \in GetForkIDsAnswers : a.rows = <<>>

C5_Witness ==
    /\ calls.Rollback = 1
    /\ calls.Commit = 0
    /\ Len(calls.AddForkID) = 2
    /\ Len(calls.GetForks[1].forks) = 2
    /\ dbTx = "rolledback"

\* C6: when the rollback attempted after a failed write or commit fails too,
\* the returned error reports both the original failure and the rollback failure.
C6_BothCausesReported ==
    (Returned /\ dbTx = "rollbackfailed") =>
        /\ "RollbackError" \in err
        /\ StoreError \in err

\* C7: a successful resolver returns at least one interval on every path, the
\* intervals injected into the state are never empty, and Running is reached
\* only with a non-empty injected interval set.
C7_NeverEmptyOnSuccess ==
    /\ (Returned /\ err = NoErr) => Len(forkIDIntervals) > 0
    /\ injected => Len(stForkIDs) > 0
    /\ Running => (injected /\ Len(stForkIDs) > 0)

C7_Witness ==
    /\ pc = "waitSignal"
    /\ injected
    /\ dbTx = "committed"
    /\ stForkIDs = forkIDs

\* C8: the cancellation registry holds one handle per started component, and
\* a termination signal invokes one cancellation per started component before
\* the process exits.
C8_OneCancelPerStartedComponent ==
    /\ pc = "waitSignal" => Len(cancelFuncs) = Len(started)
    /\ (pc = "exited" /\ fatal = "") => Len(cancelled) = Len(started)

\* C9 as stated: selection [ETHTXMANAGER] and Metrics.Enabled false, whatever
\* the rest of the configuration: one component and no endpoint at all.
C9_NoEndpointWhenMetricsDisabled ==
    (Running /\ components = <<ETHTXMANAGER>> /\ ~c.MetricsEnabled) =>
        /\ Len(started) = 1
        /\ endpoints = {}

\* C9 amended: selection [ETHTXMANAGER] and Metrics.Enabled false: never more
\* than one component and never the metrics endpoint; in Running exactly one
\* component, and the profiling endpoint exactly when Metrics.ProfilingEnabled
\* is set (so no endpoint at all when that flag is off too).
C9_EndpointsFollowTheirOwnFlags ==
    (components = <<ETHTXMANAGER>> /\ ~c.MetricsEnabled) =>
        /\ Len(started) <= 1
        /\ "metrics" \notin endpoints
        /\ "profiling" \in endpoints => c.ProfilingEnabled
        /\ Running =>
              /\ started = <<ETHTXMANAGER>>
              /\ "profiling" \in endpoints <=> c.ProfilingEnabled
              /\ ~c.ProfilingEnabled => endpoints = {}

C9_Witness ==
    /\ pc = "waitSignal"
    /\ components = <<ETHTXMANAGER>>
    /\ ~c.MetricsEnabled
    /\ ~c.ProfilingEnabled
    /\ started = <<ETHTXMANAGER>>
    /\ endpoints = {}

\* The startup calls that come before anything is launched.
StepsBeforeLaunch ==
    {"Load", "runStateMigrations", "checkStateMigrations", "NewSQLDB", "newEtherman",
     "GetL2ChainID", "newState", "forkIDIntervals", "NewPostgresStorage"}

\* C10 as stated: a fatal startup failure ends the process with a non-zero
\* status, with no component and no endpoint started.
C10_NothingStartedAtFatalFailure ==
    fatal # "" =>
        /\ pc = "exited"
        /\ exitStatus # 0
        /\ started = <<>>
        /\ endpoints = {}

\* C10 amended: a fatal startup failure ends the process at once with a
\* non-zero status and Running is never reached; nothing has been launched
\* when the failed call is one before the launches; a failed component
\* construction comes after the launch of the profiling endpoint (when
\* enabled) and of the components before it in the list, never after the
\* launch of the metrics endpoint.
C10_FatalFailureEndsProcess ==
    /\ fatal # "" =>
          /\ pc = "exited"
          /\ exitStatus # 0
          /\ ~Running
          /\ "metrics" \notin endpoints
          /\ fatal \in StepsBeforeLaunch => (started = <<>> /\ endpoints = {})
          /\ fatal \notin StepsBeforeLaunch =>
                /\ fatal = "createEthTxManager"
                /\ idx \in 1..Len(components)
                /\ components[idx] = ETHTXMANAGER
                /\ Len(started) < idx
                /\ "profiling" \in endpoints <=> c.ProfilingEnabled
    /\ Running => (fatal = "" /\ err = NoErr /\ injected)

C10_Witness ==
    /\ fatal = "createEthTxManager"
    /\ pc = "exited"
    /\ exitStatus = 1
    /\ "profiling" \in endpoints
    /\ Len(started) = 1

\* case ETHTXMANAGER: the one name the switch of `start` has a case for.
Recognized(name) == name = ETHTXMANAGER

\* C11: the components started are exactly the recognised names among the
\* names the loop has passed, in their order; a name that is not recognised
\* starts nothing and is never the cause of a fatal error, and in Running the
\* whole list has been passed, so every recognised name of it was started.
C11_UnrecognizedNamesIgnored ==
    /\ started = SelectSeq(SubSeq(components, 1, idx - 1), Recognized)
    /\ fatal = "createEthTxManager" => Recognized(components[idx])
    /\ Running =>
          /\ idx = Len(components) + 1
          /\ started = SelectSeq(components, Recognized)

C11_Witness ==
    /\ pc = "waitSignal"
    /\ components = <<UNKNOWN, ETHTXMANAGER>>
    /\ started = <<ETHTXMANAGER>>

\* `start` has not yet come to the end of its migration steps, or was ended
\* by one of them.
InMigrations ==
    \/ pc \in {"Load", "runStateMigrations", "checkStateMigrations"}
    \/ fatal \in {"Load", "runStateMigrations", "checkStateMigrations"}

\* C12: the migration run happens exactly when the migrations flag is not
\* set, and never after the check; whatever the flag, a startup that goes on
\* to the store connection has run the check as its last migration step; a
\* failed check ends the process with no store connection opened and the
\* resolver never called.
C12_MigrationCheckAlwaysRuns ==
    /\ checks \in {<<>>, <<"run">>, <<"check">>, <<"run", "check">>}
    /\ flagMigrations => checks \in {<<>>, <<"check">>}
    /\ ~InMigrations =>
          checks = IF flagMigrations THEN <<"check">> ELSE <<"run", "check">>
    /\ InMigrations => (~stateSqlDB /\ calls = NoCalls /\ Launched = {})
    /\ fatal = "checkStateMigrations" =>
          /\ pc = "exited"
          /\ exitStatus # 0
          /\ checks[Len(checks)] = "check"

C12_Witness ==
    /\ flagMigrations
    /\ checks = <<"check">>
    /\ fatal = "checkStateMigrations"
    /\ pc = "exited"

\* The place of an orchestrator state in the order of section 4.2.
Rank(st) ==
    CASE st = "Configuring" -> 1
      [] st = "ConnectingStore" -> 2
      [] st = "ResolvingForks" -> 3
      [] st = "ConstructingServices" -> 4
      [] st = "Running" -> 5
      [] st = "ShuttingDown" -> 6
      [] st = "Terminated" -> 7

\* Every launch of a component or endpoint comes after the store connection
\* was opened, the resolver returned without error and its intervals were
\* injected into the state.
LaunchesAfterResolution ==
    Launched # {} =>
        /\ stateSqlDB
        /\ Returned
        /\ err = NoErr
        /\ calls.GetForks # <<>> => pc \notin ResolverPcs
        /\ injected
        /\ stForkIDs = forkIDIntervals

\* C13 as stated: the orchestrator states are passed in their order, each at
\* most once, and every launch comes after store connection, resolution and
\* injection.
C13_SinglePassNoReentry ==
    /\ \A i \in 1..(Len(orchStates) - 1) : Rank(orchStates[i]) < Rank(orchStates[i + 1])
    /\ LaunchesAfterResolution

\* C13 amended: Configuring, ConnectingStore and ResolvingForks are passed in
\* order, each at most once, and are never entered again; then construction
\* and launching alternate (each component is built right before it is
\* started, after the profiling endpoint was launched), then ShuttingDown and
\* Terminated, once each; every launch comes after store connection,
\* resolution and injection.
C13_SinglePassUpToLaunches ==
    /\ \A i \in 1..(Len(orchStates) - 1) :
          \/ Rank(orchStates[i]) < Rank(orchStates[i + 1])
          \/ /\ orchStates[i] = "Running"
             /\ orchStates[i + 1] = "ConstructingServices"
    /\ LaunchesAfterResolution

C13_Witness ==
    /\ pc = "waitSignal"
    /\ Len(started) = 2
    /\ \E i \in 1..(Len(orchStates) - 1) :
          orchStates[i] = "Running" /\ orchStates[i + 1] = "ConstructingServices"
    /\ orchStates[Len(orchStates)] = "Running"

\* C14: a query failure of either read of the store makes the resolver return
\* an error at once, with no GetForks call, no transaction and no write (and
\* no second read after a failed first one); ErrStateNotSynchronized from
\* either read is no error: the resolver goes on to the next read and to the
\* GetForks call of an empty store, and never reports it.
C14_QueryFailureIsFatalNotSynchronizedIsNot ==
    /\ (calls.GetForkIDsErr = StoreError \/ calls.GetLastBlockErr = StoreError) =>
          /\ Returned
          /\ err # NoErr
          /\ StoreError \in err
          /\ forkIDIntervals = <<>>
          /\ calls.GetForks = <<>>
          /\ StoreUntouched
    /\ calls.GetForkIDsErr = StoreError => calls.GetLastBlock = 0
    /\ calls.GetForkIDsErr = ErrStateNotSynchronized =>
          (pc = "GetLastBlock" \/ calls.GetLastBlock = 1)
    /\ calls.GetLastBlockErr = ErrStateNotSynchronized =>
          \/ pc = "GetForks"
          \/ /\ Len(calls.GetForks) = 1
             /\ calls.GetForks[1].range = <<c.GenesisBlockNumber, c.GenesisBlockNumber>>
    /\ ErrStateNotSynchronized \notin err

C14_Witness ==
    /\ calls.GetForkIDsErr = ErrStateNotSynchronized
    /\ calls.GetLastBlockErr = ErrStateNotSynchronized
    /\ err = NoErr
    /\ pc = "waitSignal"

\* C15: in every state the committed rows of the store, which are what a
\* concurrent reader sees, are either the rows the process started with or,
\* when those were none, the complete answer of the one GetForks call; a
\* strict non-empty prefix of the answer is never among the committed rows,
\* whatever write, commit or rollback failed.
C15_NoPartialIntervalSetVisible ==
    \/ forkIDs = forkIDs0
    \/ /\ forkIDs0 = <<>>
       /\ Len(calls.GetForks) = 1
       /\ forkIDs = calls.GetForks[1].forks
       /\ calls.Commit = 1

\* A second write failed after a first one succeeded and the rollback failed
\* too: one row of two is pending on the transaction.
C15_Witness ==
    /\ dbTx = "rollbackfailed"
    /\ Len(forkIntervals) = 2
    /\ Len(txRows) = 1
    /\ Len(calls.AddForkID) = 2
    /\ calls.Commit = 0
    /\ forkIDs = <<>>

\* The orchestrator states passed so far, as a set.
Passed == {orchStates[i] : i \in 1..Len(orchStates)}

C17_SignalLeadsToExitZero ==
    /\ (pc = "waitSignal" /\ signals # <<>>)
          ~> (pc = "exited" /\ exitStatus = 0 /\ fatal = "" /\ "Terminated" \in Passed)
    /\ [][(pc = "waitSignal" /\ signals = <<>>) => pc' = "waitSignal"]_vars

\* The process ended on a signal while its started component was still
\* running.
C17_Witness ==
    /\ pc = "exited"
    /\ fatal = ""
    /\ exitStatus = 0
    /\ started # <<>>
    /\ stopped = {}
    /\ "Terminated" \in Passed

\* C18: the resolver opens at most one transaction; once it has returned, no
\* transaction is left open without an attempt to close it: a transaction
\* that was opened was either committed, with no rollback, or a rollback was
\* attempted once; and after a rollback was attempted (after a failed write
\* or a failed commit) the resolver calls the store and the Oracle no more,
\* so no AddForkID follows a failed write.
C18_OpenedTransactionIsClosed ==
    /\ [](/\ calls.Begin <= 1
          /\ dbTx # "none" => calls.Begin = 1
          /\ Returned =>
                /\ dbTx # "open"
                /\ dbTx # "none" =>
                      \/ dbTx = "committed" /\ calls.Commit = 1 /\ calls.Rollback = 0
                      \/ dbTx \in {"rolledback", "rollbackfailed"} /\ calls.Rollback = 1)
    /\ [][calls.Rollback > 0 => calls' = calls]_vars

\* The first write of two failed: the rollback was attempted and the second
\* write was never made.
C18_Witness ==
    /\ Returned
    /\ Len(forkIntervals) = 2
    /\ Len(calls.AddForkID) = 1
    /\ calls.Rollback = 1
    /\ calls.Commit = 0
    /\ dbTx \in {"rolledback", "rollbackfailed"}

\* C19: a run that follows a run whose resolver persisted the Oracle's answer
\* (last-synchronized-block branch) finds that answer in the store: it makes
\* no GetForks call and no write, and when its read of the store succeeds it
\* returns the same sequence, whatever GetForks would answer now.  A run that
\* follows a run whose resolver succeeded on the genesis-only branch finds
\* the store empty, leaves it empty, and when it succeeds it has asked
\* GetForks once again, over the genesis-only range.
C19_IdempotentOncePersisted ==
    /\ prev.kind = "persisted" =>
          /\ prev.result # <<>>
          /\ forkIDs0 = prev.result
          /\ calls.GetForks = <<>>
          /\ StoreUntouched
          /\ Returned =>
                \/ err = NoErr /\ forkIDIntervals = prev.result
                \/ err = Errorf("error getting forkIDs from db", {StoreError})
    /\ prev.kind = "genesis" =>
          /\ forkIDs0 = <<>>
          /\ forkIDs = <<>>
          /\ StoreUntouched
          /\ (Returned /\ err = NoErr) =>
                /\ Len(calls.GetForks) = 1
                /\ calls.GetForks[1].range = <<c.GenesisBlockNumber, c.GenesisBlockNumber>>

\* The second run returned the sequence the first one persisted, though
\* GetForks could answer otherwise now.
C19_Witness ==
    /\ run = 2
    /\ prev.kind = "persisted"
    /\ Len(prev.result) = 2
    /\ Returned
    /\ err = NoErr
    /\ forkIDIntervals = prev.result
    /\ \E a \in GetForksAnswers : a.e = "nil" /\ a.forks # prev.result

=============================================================================
